---- MODULE Spec2Model ----
(***************************************************************************)
(* State-machine model of accounts/models.py: the Account, AccountUser and *)
(* AccountOwner tables, the methods the module overrides (Account.save,    *)
(* Account.is_member, AccountUser.delete, AccountOwner.save) and the       *)
(* inherited save/delete whose effect is fixed by the field declarations   *)
(* (unique, unique_together, OneToOneField, ForeignKey cascade).           *)
(*                                                                         *)
(* A CharField value with null=True is an option: {} is None, {s} is the   *)
(* string s; a string is a sequence of characters, <<>> the empty string.  *)
(* Primary keys are positive integers; pk = 0 stands for an unsaved        *)
(* instance (pk None).  An insert takes any key above the keys stored in   *)
(* the table, which covers a backend sequence (gaps are possible) and a    *)
(* backend that hands out max(rowid) + 1.  The columns name,               *)
(* is_active, is_admin, created and modified are read by no method of the  *)
(* module and are left out.                                                *)
(***************************************************************************)
EXTENDS Integers, FiniteSets, Sequences, TLC

\* Bounds of the exploration.
MaxAccounts == 2         \* largest primary key of Account
MaxAccountUsers == 2     \* largest primary key of AccountUser
MaxAccountOwners == 2    \* largest primary key of AccountOwner
MaxRows == 4             \* rows stored in the three tables together
NumUsers == 2            \* rows of auth.User
MaxStrLen == 1           \* longest subdomain/domain string tried

VARIABLES
    Account,             \* stored Account rows
    AccountUser,         \* stored AccountUser rows
    AccountOwner,        \* stored AccountOwner rows
    last                 \* the last call: method, arguments, outcome

tables == <<Account, AccountUser, AccountOwner>>
vars == <<Account, AccountUser, AccountOwner, last>>

None == {}
Blank == {<< >>}
Strings == UNION {[1..n -> {"a"}] : n \in 0..MaxStrLen}
CharValues == {None} \cup {{s} : s \in Strings}
User == 1..NumUsers

pks(table) == {r.id : r \in table}
get(table, pk) == CHOOSE r \in table : r.id = pk

\* The primary keys an insert into table may get.
rows == Cardinality(Account) + Cardinality(AccountUser) + Cardinality(AccountOwner)
fresh(table, max) ==
    IF rows >= MaxRows THEN {} ELSE {k \in 1..max : \A r \in table : r.id < k}

\* A call: pk is the primary key of the instance when the call returns.
Call(op, pk, user, account, account_user, subdomain, domain, result) ==
    [op |-> op, pk |-> pk, user |-> user, account |-> account,
     account_user |-> account_user, subdomain |-> subdomain,
     domain |-> domain, result |-> result]

Init ==
    /\ Account = {}
    /\ AccountUser = {}
    /\ AccountOwner = {}
    /\ last = Call("init", 0, 0, 0, 0, None, None, "ok")

----------------------------------------------------------------------------
\* Account

\* Variant of Account_unique in which NULL collides with NULL.
Account_unique_nulls_collide(pk, subdomain, domain) ==
    \A r \in Account :
        r.id # pk => (r.subdomain # subdomain /\ r.domain # domain)

\* subdomain/domain: unique=True, null=True.  NULLs never collide.
Account_unique(pk, subdomain, domain) ==
    \A r \in Account :
        r.id # pk =>
            /\ (subdomain # None => r.subdomain # subdomain)
            /\ (domain # None => r.domain # domain)

\* Variant of Account_normalize that stores the value as given.
Account_normalize_keep(v) == v

\* Account.save: blank subdomain/domain become None, then Model.save.
Account_normalize(v) == IF v = Blank THEN None ELSE v

Account_save(pk, subdomain, domain) ==
    LET sub == Account_normalize(subdomain)
        dom == Account_normalize(domain)
    IN  \E id \in IF pk = 0 THEN fresh(Account, MaxAccounts) ELSE {pk} :
        /\ IF Account_unique(pk, sub, dom)
           THEN /\ Account' = {r \in Account : r.id # pk}
                        \cup {[id |-> id, subdomain |-> sub, domain |-> dom]}
                /\ last' = Call("Account.save", id, 0, 0, 0, subdomain, domain, "ok")
           ELSE /\ UNCHANGED Account
                /\ last' = Call("Account.save", pk, 0, 0, 0, subdomain, domain,
                                "IntegrityError")
        /\ UNCHANGED <<AccountUser, AccountOwner>>

\* Account.delete is the inherited Model.delete: the rows that reach the
\* account through a ForeignKey/OneToOneField go with it, and so do the rows
\* that reach those.  The collector removes rows without calling delete().
Account_delete(pk) ==
    LET members == {m \in AccountUser : m.account = pk}
        gone == {o \in AccountOwner :
                    o.account = pk \/ o.account_user \in pks(members)}
    IN  /\ Account' = {r \in Account : r.id # pk}
        /\ AccountUser' = AccountUser \ members
        /\ AccountOwner' = AccountOwner \ gone
        /\ last' = Call("Account.delete", pk, 0, 0, 0, None, None, "ok")

\* Account.is_member: self.objects is a manager reached through an instance,
\* which the manager descriptor refuses with AttributeError.
Account_objects(self) == "AttributeError"

is_member(self, user) ==
    IF Account_objects(self) = "AttributeError"
    THEN "AttributeError"
    ELSE IF {m \in AccountUser : m.account = self.id /\ m.user = user} # {}
         THEN "True"
         ELSE "False"

Account_is_member(pk, user) ==
    /\ last' = Call("Account.is_member", pk, user, 0, 0, None, None,
                    is_member(get(Account, pk), user))
    /\ UNCHANGED tables

----------------------------------------------------------------------------
\* AccountUser

\* Variant of AccountUser_unique without the unique_together constraint.
AccountUser_unique_off(pk, user, account) == TRUE

\* unique_together = ('user', 'account')
AccountUser_unique(pk, user, account) ==
    \A m \in AccountUser :
        m.id # pk => ~(m.user = user /\ m.account = account)

\* AccountUser.save is the inherited Model.save.
AccountUser_save(pk, user, account) ==
    \E id \in IF pk = 0 THEN fresh(AccountUser, MaxAccountUsers) ELSE {pk} :
        /\ IF AccountUser_unique(pk, user, account)
           THEN /\ AccountUser' = {m \in AccountUser : m.id # pk}
                        \cup {[id |-> id, user |-> user, account |-> account]}
                /\ last' = Call("AccountUser.save", id, user, account, 0,
                                None, None, "ok")
           ELSE /\ UNCHANGED AccountUser
                /\ last' = Call("AccountUser.save", pk, user, account, 0,
                                None, None, "IntegrityError")
        /\ UNCHANGED <<Account, AccountOwner>>

\* self.account.owner: the AccountOwner row whose account is self.account.
Account_owner(account) == {o \in AccountOwner : o.account = account}

\* The test of AccountUser.delete: self.account.owner.id == self.id
AccountUser_is_owner(self, owner) == owner.id = self.id

\* What AccountUser.delete does with self: self.account.owner raises
\* DoesNotExist when the account has no owner row; otherwise the test decides
\* between OwnershipRequired and the inherited delete.
AccountUser_delete_outcome(self) ==
    LET owner == Account_owner(self.account)
    IN  IF owner = {} THEN "DoesNotExist"
        ELSE IF AccountUser_is_owner(self, CHOOSE o \in owner : TRUE)
             THEN "OwnershipRequired"
             ELSE "ok"

\* The inherited delete takes the AccountOwner row that refers to self along.
AccountUser_delete(pk) ==
    LET self == get(AccountUser, pk)
        outcome == AccountUser_delete_outcome(self)
    IN  /\ IF outcome = "ok"
           THEN /\ AccountUser' = {m \in AccountUser : m.id # pk}
                /\ AccountOwner' = {o \in AccountOwner : o.account_user # pk}
                /\ UNCHANGED Account
           ELSE UNCHANGED tables
        /\ last' = Call("AccountUser.delete", pk, 0, 0, 0, None, None, outcome)

----------------------------------------------------------------------------
\* AccountOwner

\* account and account_user are OneToOneFields: each is unique.
AccountOwner_unique(pk, account, account_user) ==
    \A o \in AccountOwner :
        o.id # pk => (o.account # account /\ o.account_user # account_user)

\* Variant of AccountOwner_mismatch that compares the membership's own key.
AccountOwner_mismatch_ids(account, account_user) ==
    get(AccountUser, account_user).id # account

\* The test of AccountOwner.save: self.account_user.account != self.account
AccountOwner_mismatch(account, account_user) ==
    get(AccountUser, account_user).account # account

AccountOwner_save(pk, account, account_user) ==
    \E id \in IF pk = 0 THEN fresh(AccountOwner, MaxAccountOwners) ELSE {pk} :
        /\ IF AccountOwner_mismatch(account, account_user)
           THEN /\ UNCHANGED AccountOwner
                /\ last' = Call("AccountOwner.save", pk, 0, account, account_user,
                                None, None, "AccountMismatch")
           ELSE IF AccountOwner_unique(pk, account, account_user)
           THEN /\ AccountOwner' = {o \in AccountOwner : o.id # pk}
                        \cup {[id |-> id, account |-> account,
                               account_user |-> account_user]}
                /\ last' = Call("AccountOwner.save", id, 0, account, account_user,
                                None, None, "ok")
           ELSE /\ UNCHANGED AccountOwner
                /\ last' = Call("AccountOwner.save", pk, 0, account, account_user,
                                None, None, "IntegrityError")
        /\ UNCHANGED <<Account, AccountUser>>

\* AccountOwner.delete is the inherited Model.delete; nothing refers to it.
AccountOwner_delete(pk) ==
    /\ AccountOwner' = {o \in AccountOwner : o.id # pk}
    /\ last' = Call("AccountOwner.delete", pk, 0, 0, 0, None, None, "ok")
    /\ UNCHANGED <<Account, AccountUser>>

----------------------------------------------------------------------------
Next ==
    \/ \E pk \in pks(Account) \cup {0}, subdomain \in CharValues, domain \in CharValues :
            Account_save(pk, subdomain, domain)
    \/ \E pk \in pks(Account) : Account_delete(pk)
    \/ \E pk \in pks(Account), user \in User : Account_is_member(pk, user)
    \/ \E pk \in pks(AccountUser) \cup {0}, user \in User, account \in pks(Account) :
            AccountUser_save(pk, user, account)
    \/ \E pk \in pks(AccountUser) : AccountUser_delete(pk)
    \/ \E pk \in pks(AccountOwner) \cup {0}, account \in pks(Account),
          account_user \in pks(AccountUser) :
            AccountOwner_save(pk, account, account_user)
    \/ \E pk \in pks(AccountOwner) : AccountOwner_delete(pk)

Spec == Init /\ [][Next]_vars

\* The Account table alone.  No method of AccountUser or AccountOwner writes
\* Account, and Account.save reads nothing else.
NextAccount ==
    \/ \E pk \in pks(Account) \cup {0}, subdomain \in CharValues, domain \in CharValues :
            Account_save(pk, subdomain, domain)
    \/ \E pk \in pks(Account) : Account_delete(pk)
    \/ \E pk \in pks(Account), user \in User : Account_is_member(pk, user)

SpecAccount == Init /\ [][NextAccount]_vars

\* Every method, with accounts that have neither subdomain nor domain.  No
\* method of AccountUser or AccountOwner reads the two columns, and a save of
\* such an account never fails.
NextMembers ==
    \/ \E pk \in pks(Account) \cup {0} : Account_save(pk, None, None)
    \/ \E pk \in pks(Account) : Account_delete(pk)
    \/ \E pk \in pks(Account), user \in User : Account_is_member(pk, user)
    \/ \E pk \in pks(AccountUser) \cup {0}, user \in User, account \in pks(Account) :
            AccountUser_save(pk, user, account)
    \/ \E pk \in pks(AccountUser) : AccountUser_delete(pk)
    \/ \E pk \in pks(AccountOwner) \cup {0}, account \in pks(Account),
          account_user \in pks(AccountUser) :
            AccountOwner_save(pk, account, account_user)
    \/ \E pk \in pks(AccountOwner) : AccountOwner_delete(pk)

SpecMembers == Init /\ [][NextMembers]_vars

----------------------------------------------------------------------------
\* Properties

\* The membership m is the one its account's owner row refers to.
IsOwnerMembership(m) ==
    \E o \in AccountOwner : o.account = m.account /\ o.account_user = m.id

\* C1: a direct AccountUser.delete of a membership that its account's owner
\* row refers to fails with OwnershipRequired and removes nothing.
C1_OwnerDeleteRefused ==
    [][\A m \in AccountUser :
          (last'.op = "AccountUser.delete" /\ last'.pk = m.id
              /\ IsOwnerMembership(m))
          => (/\ last'.result = "OwnershipRequired"
              /\ AccountUser' = AccountUser
              /\ AccountOwner' = AccountOwner)]_vars

\* C2: a direct AccountUser.delete of a membership that its account's owner
\* row does not refer to succeeds and removes that membership.
C2_NonOwnerDeleteSucceeds ==
    [][\A m \in AccountUser :
          (last'.op = "AccountUser.delete" /\ last'.pk = m.id
              /\ ~IsOwnerMembership(m))
          => (last'.result = "ok" /\ m \notin AccountUser')]_vars

\* C3: AccountOwner.save of an owner whose account differs from the account
\* of its membership fails with AccountMismatch and leaves every table as it
\* was.
C3_MismatchRejected ==
    [][(/\ last'.op = "AccountOwner.save"
        /\ \E m \in AccountUser :
              m.id = last'.account_user /\ m.account # last'.account)
       => (/\ last'.result = "AccountMismatch"
           /\ Account' = Account
           /\ AccountUser' = AccountUser
           /\ AccountOwner' = AccountOwner)]_vars

\* C3 witness: the save of an already stored owner row was refused.
C3_Witness ==
    /\ last.op = "AccountOwner.save"
    /\ last.result = "AccountMismatch"
    /\ last.pk \in pks(AccountOwner)

\* C4: every stored owner row refers to a membership of its own account.
C4_OwnerConsistent ==
    \A o \in AccountOwner :
        \E m \in AccountUser : m.id = o.account_user /\ m.account = o.account

\* The row an Account.save that succeeded has written.
SavedAccount == get(Account, last.pk)

\* C5: no stored account has an empty-string subdomain or domain; a save
\* stores None for an empty string and any other value as given.
C5_BlankStoredAsNone ==
    /\ \A r \in Account : r.subdomain # Blank /\ r.domain # Blank
    /\ (last.op = "Account.save" /\ last.result = "ok")
        => /\ SavedAccount.subdomain =
                    (IF last.subdomain = Blank THEN None ELSE last.subdomain)
           /\ SavedAccount.domain =
                    (IF last.domain = Blank THEN None ELSE last.domain)

\* C5 witness: a save with both fields empty succeeded.
C5_Witness ==
    /\ last.op = "Account.save"
    /\ last.result = "ok"
    /\ last.subdomain = Blank
    /\ last.domain = Blank

\* C6: at most one membership per (user, account); a save that would make a
\* second one is rejected and leaves the memberships as they were.
C6_UniqueMembership ==
    [][/\ \A m1, m2 \in AccountUser' :
              (m1.user = m2.user /\ m1.account = m2.account) => m1 = m2
       /\ (/\ last'.op = "AccountUser.save"
           /\ \E m \in AccountUser :
                 /\ m.id # last'.pk
                 /\ m.user = last'.user
                 /\ m.account = last'.account)
          => (last'.result = "IntegrityError" /\ AccountUser' = AccountUser)]_vars

\* C6 witness: a save of a second membership for a stored pair was rejected.
C6_Witness ==
    /\ last.op = "AccountUser.save"
    /\ last.result = "IntegrityError"
    /\ \E m \in AccountUser : m.user = last.user /\ m.account = last.account

\* C7: Account.is_member returns True exactly when the user has a membership
\* under the account and False otherwise.
C7_IsMemberBoolean ==
    last.op = "Account.is_member"
        => last.result =
            (IF \E m \in AccountUser : m.account = last.pk /\ m.user = last.user
             THEN "True" ELSE "False")

\* C8: the subdomains that are present are pairwise distinct, and so are the
\* domains; a save is refused for uniqueness only when a value it gives,
\* other than None and the empty string, is already stored in another row.
C8_PresentValuesUnique ==
    [][/\ \A r1, r2 \in Account' :
              r1.id # r2.id =>
                  /\ (r1.subdomain # None => r1.subdomain # r2.subdomain)
                  /\ (r1.domain # None => r1.domain # r2.domain)
       /\ (last'.op = "Account.save" /\ last'.result = "IntegrityError")
          => \E r \in Account :
                /\ r.id # last'.pk
                /\ \/ (last'.subdomain \notin {None, Blank}
                          /\ r.subdomain = last'.subdomain)
                   \/ (last'.domain \notin {None, Blank}
                          /\ r.domain = last'.domain)]_vars

\* C8 witness: two accounts without subdomain and domain are stored, the
\* second saved with empty strings.
C8_Witness ==
    /\ last.op = "Account.save"
    /\ last.result = "ok"
    /\ last.subdomain = Blank
    /\ last.domain = Blank
    /\ \E r1, r2 \in Account :
          /\ r1.id # r2.id
          /\ r1.subdomain = None /\ r2.subdomain = None
          /\ r1.domain = None /\ r2.domain = None

\* C9: once the owner row of an account is saved with another membership of
\* the account, a direct delete of the former owner membership would succeed
\* and a direct delete of the new one would fail with OwnershipRequired.
C9_GuardFollowsTransfer ==
    [][\A o \in AccountOwner, former, new \in AccountUser :
          (/\ last'.op = "AccountOwner.save"
           /\ last'.result = "ok"
           /\ last'.pk = o.id
           /\ last'.account = o.account
           /\ o.account_user = former.id
           /\ last'.account_user = new.id
           /\ new.id # former.id
           /\ former.account = o.account)
          => (/\ AccountUser_delete_outcome(former)' = "ok"
              /\ AccountUser_delete_outcome(new)' = "OwnershipRequired")]_vars

\* C10: deleting an account succeeds, removes the account with its
\* memberships and its owner row, leaves the rows of every other account as
\* they were, and leaves no row that refers to a removed row.
C10_AccountDeleteCascade ==
    [][last'.op = "Account.delete"
       => (/\ last'.result = "ok"
           /\ Account' = {r \in Account : r.id # last'.pk}
           /\ AccountUser' = {m \in AccountUser : m.account # last'.pk}
           /\ AccountOwner' = {o \in AccountOwner : o.account # last'.pk}
           /\ \A m \in AccountUser' : m.account \in pks(Account')
           /\ \A o \in AccountOwner' :
                 /\ o.account \in pks(Account')
                 /\ o.account_user \in pks(AccountUser'))]_vars

====
